---------------------------- MODULE Spec2Model ----------------------------
(***************************************************************************)
(* Model of publicLegiCrawler: the Middleman (Coordinator) of converter.py *)
(* between the text provider (Source Agent, createTextProvider), the DB    *)
(* manager (Store Agent, createDbManager) and the control connection of    *)
(* main.py, with the DbConnector transaction handling of dbConnector.py.   *)
(*                                                                         *)
(* Pipes are FIFO queues.  Each process is a program counter plus its      *)
(* local variables; one action is one iteration of a handler's loop (one   *)
(* message received and processed) or one blocking call of an agent.       *)
(* Variables whose name starts with "g" are history variables, as are the  *)
(* fields log and snap of db, the field org of a message, the fields       *)
(* acquired, requests, results and asked of legi and the fields recorded,  *)
(* sleeps and held of connector: the code does not hold them, they record  *)
(* what happened for the properties.                                       *)
(***************************************************************************)
EXTENDS Integers, Sequences, FiniteSets, TLC

(* ------------------------------ bounds -------------------------------- *)
\* Number of distinct search filters (Jobs) the control side may submit.
NumJobs == 2
\* Longest sequence of submissions placed on the control pipe before END.
MaxJobs == 2
\* Number of distinct text CIDs (ItemIds) of the remote catalogue.
NumIds == 2
\* Largest totalResultNumber the remote listing reports for one search.
MaxTotal == 2
\* Largest number of results the remote listing returns in one page.
MaxPageLen == 2
\* Largest number of elements of the "articles" array of a /consult/jorf reply.
MaxArticles == 2

\* Clock ticks in one second: time() is read to a third of a second, finer
\* than the truncation int(time()).
Res == 3
\* LegiConnector._PERIOD, in seconds (60 in legiConnector.py 29).
PERIOD == 2
\* LegiConnector._QUOTA_LIMIT (100 in legiConnector.py 30).
QUOTA_LIMIT == 2
\* Last tick of the clock.
MaxClock == 12
\* Largest number of calls of LegiConnector.post.
MaxPosts == 3

\* Largest number of messages that a pipe holds in one direction.
Cap == 1
\* Page numbers and numbers of requests of one list above MaxPages are not
\* told apart; no list whose pages hold a result each while results remain
\* gets there.
MaxPages == MaxTotal + 2

Jobs == 1..NumJobs
Ids == 1..NumIds
\* The "wait" member of self._commandsSet: submissions are still accepted.
Wait == 0

(* ----------------------------- messages ------------------------------- *)
\* Markers (converter.py 26-35).
END == "END"
TEXT_LIST == "TEXT_LIST"
TEXT == "TEXT"

\* Every pipe message is one record shape: t is the marker (or "JOB" for a
\* search filter sent on the control pipe), job the search filter, ids a
\* list of CIDs, cid one CID, body the payload kind, org the history tag
\* (the job whose listing page a CheckNew request comes from).
\* A field that a message does not carry is 0, <<>> or "".
Msg(t, job, ids, cid, body, org) ==
    [t |-> t, job |-> job, ids |-> ids, cid |-> cid, body |-> body, org |-> org]

EndMsg == Msg(END, 0, <<>>, 0, "", 0)
JobMsg(j) == Msg("JOB", j, <<>>, 0, "", 0)
ListOrder(j) == Msg(TEXT_LIST, j, <<>>, 0, "", 0)
ListPage(j, ids) == Msg(TEXT_LIST, j, ids, 0, "", 0)
ListEnd(j) == Msg(END, j, <<>>, 0, "", 0)
FetchOrder(ids) == Msg(TEXT, 0, ids, 0, "", 0)
FetchedText(cid, content) == Msg(TEXT, 0, <<>>, cid, content, 0)
CheckOrder(ids, org) == Msg(TEXT_LIST, 0, ids, 0, "", org)
CheckReply(ref, ids, org) == Msg(TEXT_LIST, 0, ids, ref, "", org)
StoreOrder(cid, success) == Msg(TEXT, 0, <<>>, cid, success, 0)
StoreAck(cid) == Msg(TEXT, 0, <<>>, cid, "", 0)
\* An object that is none of the messages of the protocol.
Stray == Msg("OTHER", 0, <<>>, 0, "", 0)

(* ------------------------------ helpers ------------------------------- *)
Range(s) == {s[i] : i \in DOMAIN s}

SeqsUpTo(S, n) == UNION {[1..k -> S] : k \in 0..n}

RECURSIVE SelectSeqBy(_, _)
\* [x for x in s if x not in drop]
SelectSeqBy(s, drop) ==
    IF s = <<>> THEN <<>>
    ELSE IF Head(s) \in drop THEN SelectSeqBy(Tail(s), drop)
         ELSE <<Head(s)>> \o SelectSeqBy(Tail(s), drop)

\* dict.pop(k) and dict[k] = v on a function whose domain is the key set.
DictPop(d, k) == [x \in (DOMAIN d) \ {k} |-> d[x]]
DictSet(d, k, v) == [x \in (DOMAIN d) \cup {k} |-> IF x = k THEN v ELSE d[x]]

\* dict.pop(k, default): a missing key gives the default and no exception.
PopOrDefault(d, k) ==
    [raised |-> FALSE,
     value |-> IF k \in DOMAIN d THEN d[k] ELSE 0,
     dict |-> DictPop(d, k)]

\* dict.pop(k): the value and the dictionary without the key, or KeyError
\* (raised) and the dictionary as it was when the key is missing.
Pop(d, k) ==
    IF k \in DOMAIN d
    THEN [raised |-> FALSE, value |-> d[k], dict |-> DictPop(d, k)]
    ELSE [raised |-> TRUE, value |-> 0, dict |-> d]

\* for cid in ids[1:]: dict[cid] = v: the first CID gets no entry.
DictSetRest(d, ids, v) ==
    IF Len(ids) <= 1 THEN d
    ELSE [x \in (DOMAIN d) \cup Range(Tail(ids)) |->
             IF x \in Range(Tail(ids)) THEN v ELSE d[x]]

\* dict[ids[0]] = v: the first CID only gets an entry.
DictSetFirst(d, ids, v) ==
    IF ids = <<>> THEN d ELSE DictSet(d, Head(ids), v)

RECURSIVE DictSetAll(_, _, _)
\* for cid in ids: dict[cid] = v
DictSetAll(d, ids, v) ==
    IF ids = <<>> THEN d ELSE DictSetAll(DictSet(d, Head(ids), v), Tail(ids), v)

EmptyDict == [x \in {} |-> 0]

VARIABLES
    \* Middleman (converter.py 440-444)
    mmPc,           \* position of the Middleman in __init__ (445-454)
    commandsSet,    \* self._commandsSet: {"wait"} and the listed filters
    commandsDict,   \* self._commandsDict: CID -> search filter
    \* pipes: one queue per direction
    fromCommand,    \* control -> Middleman
    toCommand,      \* Middleman -> control
    toLegi,         \* Middleman -> text provider
    fromLegi,       \* text provider -> Middleman
    toDb,           \* Middleman -> DB manager
    fromDb,         \* DB manager -> Middleman
    \* text provider (createTextProvider)
    legi,           \* its position and the locals of the running order
    \* DB manager (createDbManager) and its DbConnector
    dbPc,
    db,
    \* history
    gM,             \* what the Middleman did
    gA,             \* what the agents did
    \* LegiConnector (legiConnector.py) and the clock it reads
    connector,      \* position in post, self._quotas, and the times recorded
    clock           \* time(), in ticks

sysVars == <<mmPc, commandsSet, commandsDict, fromCommand, toCommand, toLegi,
             fromLegi, toDb, fromDb, legi, dbPc, db, gM, gA>>

\* The timing of the quota is examined on its own (SpecQuota); in the other
\* specifications the clock stands still and _waitIfNeeded returns.
quotaVars == <<connector, clock>>

vars == <<sysVars, quotaVars>>

mmVars == <<mmPc, commandsSet, commandsDict>>
pipes == <<fromCommand, toCommand, toLegi, fromLegi, toDb, fromDb>>

(* ------------------------------ DbConnector --------------------------- *)
\* The persistent store: the CIDs of the parsed-texts table, of the
\* failed-texts table, and the CIDs that have records.
EmptyStore == [accepted |-> {}, failed |-> {}, records |-> {}]

\* DbConnector.__init__ (dbConnector.py 41-47): no connection, no nesting.
\* pending is the open transaction of the psycopg2 connection, raised tells
\* that an exception is propagating, log the history of the connection.
NewDb(store) ==
    [store |-> store, snap |-> store, pending |-> <<>>, nesting |-> 0,
     connection |-> FALSE, raised |-> FALSE, log |-> <<>>]

Logged(d, ev) == [d EXCEPT !.log = Append(@, ev)]

RECURSIVE ApplyWrites(_, _)
\* The rows of the open transaction made durable.
ApplyWrites(store, pending) ==
    IF pending = <<>> THEN store
    ELSE LET w == Head(pending)
             s == CASE w.table = "failed" ->
                         [store EXCEPT !.failed = @ \cup w.rows]
                    [] w.table = "accepted" ->
                         [store EXCEPT !.accepted = @ \cup w.rows]
                    [] OTHER ->
                         [store EXCEPT !.records = @ \cup w.rows]
         IN ApplyWrites(s, Tail(pending))

\* DbConnector.commit (dbConnector.py 147-149).
DbCommit(d) ==
    Logged([d EXCEPT !.store = ApplyWrites(d.store, d.pending),
                     !.pending = <<>>], "commit")

DbRollback(d) == Logged([d EXCEPT !.pending = <<>>], "rollback")

\* DbConnector.__enter__ (dbConnector.py 49-61).
DbEnter(d) ==
    IF d.nesting # 0 THEN [d EXCEPT !.nesting = @ + 1]
    ELSE [d EXCEPT !.nesting = 1, !.connection = TRUE]

\* DbConnector.__exit__ (dbConnector.py 63-67): leaving the outermost block
\* leaves the psycopg2 connection's own block, which commits the open
\* transaction, or rolls it back when an exception is propagating.
DbExit(d) ==
    LET d1 == [d EXCEPT !.nesting = @ - 1]
    IN IF d1.nesting # 0 THEN d1
       ELSE [(IF d1.raised THEN DbRollback(d1) ELSE DbCommit(d1))
                EXCEPT !.connection = FALSE]

\* ExecuteMany as it would be with autocommit: each batch is committed as
\* soon as it has run.
ExecuteManyAutocommit(d, table, params, err) ==
    IF Len(params) = 0 THEN d
    ELSE LET d1 == DbEnter(d)
             d2 == IF err THEN d1
                   ELSE DbCommit(Logged([d1 EXCEPT !.pending =
                          Append(@, [table |-> table, rows |-> Range(params)])],
                          "write"))
         IN DbExit(Logged([d2 EXCEPT !.raised = TRUE], "raise"))

\* DbConnector.executeMany (dbConnector.py 107-122).  err: the database
\* refuses the batch (execute_batch raises).  When the batch has run, line
\* 122 calls self._executeMany, which DbConnector does not define: the call
\* raises AttributeError, so every call with parameters ends in an exception.
ExecuteMany(d, table, params, err) ==
    IF Len(params) = 0 THEN d
    ELSE LET d1 == DbEnter(d)
             d2 == IF err THEN d1
                   ELSE Logged([d1 EXCEPT !.pending =
                          Append(@, [table |-> table, rows |-> Range(params)])],
                          "write")
         IN DbExit(Logged([d2 EXCEPT !.raised = TRUE], "raise"))

\* DbConnector.executeAndFetch of Statements.selectCid (dbConnector.py
\* 142-145): whether the CID is in the store.  The statement itself is in
\* dbStructure; a CID is known when either table holds it.
SelectCid(d, cid) == cid \in d.store.accepted \cup d.store.failed

(* --------------------------- DB manager ------------------------------- *)
\* CheckIfKnown without its filter: the CIDs found in the database are not
\* taken out of the reply.
CheckIfKnownNoFilter(d, cidList) == cidList

\* CheckIfKnown with the first CID used as the key only: it is not looked up
\* and not reported.
CheckIfKnownSkipFirst(d, cidList) ==
    SelectSeqBy(Tail(cidList), {c \in Range(cidList) : SelectCid(d, c)})

\* _checkIfKnown (converter.py 300-309), for a non-empty cidList: the CIDs
\* of the list that the database does not hold, in the order of the list.
CheckIfKnown(d, cidList) ==
    SelectSeqBy(cidList, {c \in Range(cidList) : SelectCid(d, c)})

RECURSIVE CidsWith(_, _)
\* The CIDs of the texts whose "success" is flag, in the order of the list.
CidsWith(texts, flag) ==
    IF texts = <<>> THEN <<>>
    ELSE IF Head(texts).success = flag
         THEN <<Head(texts).cid>> \o CidsWith(Tail(texts), flag)
         ELSE CidsWith(Tail(texts), flag)

RECURSIVE Acks(_)
\* for text in texts: pipeEnd.send((Markers.TEXT, text[Types.cid]))
Acks(texts) ==
    IF texts = <<>> THEN <<>>
    ELSE <<StoreAck(Head(texts).cid)>> \o Acks(Tail(texts))

\* _storeText (converter.py 339-359) on the list texts; err: the database
\* refuses a batch.  The result is the connector after the call and the
\* messages sent; an exception (d.raised) leaves the function at once.
\* Every text parsed with success carries one record.
StoreText(d, texts, err) ==
    LET success == CidsWith(texts, TRUE)
        failure == CidsWith(texts, FALSE)
        d0 == Logged([d EXCEPT !.snap = d.store], "begin")
        d1 == IF failure # <<>> THEN ExecuteMany(d0, "failed", failure, err)
              ELSE d0
        d2 == IF d1.raised \/ success = <<>> THEN d1
              ELSE ExecuteMany(d1, "accepted", success, err)
        d3 == IF d2.raised \/ success = <<>> THEN d2
              ELSE ExecuteMany(d2, "records", success, err)
        d4 == Logged(IF d3.raised THEN d3 ELSE DbCommit(d3), "end")
    IN [d |-> d4,
        out |-> IF d4.raised THEN <<>> ELSE Acks(texts) \o <<EndMsg>>]

\* createDbManager (converter.py 264-272): one order received and executed.
\* The first order is received before the with-block is entered (264-265);
\* END leaves the block; an exception leaves the block and ends the process.
DbManager ==
    /\ dbPc \in {"start", "recv"}
    /\ toDb # <<>>
    /\ LET order == Head(toDb)
           d0 == IF dbPc = "start" THEN DbEnter(db) ELSE db
       IN /\ toDb' = Tail(toDb)
          /\ IF order.t = END /\ order.job = 0
             THEN /\ db' = DbExit(d0)
                  /\ dbPc' = "ended"
                  /\ UNCHANGED <<fromDb, gA>>
             ELSE IF order.t = TEXT_LIST
             THEN IF order.ids = <<>>
                  THEN \* cidList[0] raises IndexError (302)
                       /\ db' = DbExit([d0 EXCEPT !.raised = TRUE])
                       /\ dbPc' = "crashed"
                       /\ UNCHANGED <<fromDb, gA>>
                  ELSE LET new == CheckIfKnown(d0, order.ids)
                       IN /\ db' = d0
                          /\ dbPc' = "recv"
                          /\ fromDb' = Append(fromDb,
                                 CheckReply(order.ids[1], new, order.org))
                          /\ gA' = [gA EXCEPT
                                 !.checked = @ \cup Range(order.ids),
                                 !.replied = @ \cup Range(new)]
             ELSE \* Markers.TEXT
                  \E err \in BOOLEAN :
                    LET texts == <<[cid |-> order.cid,
                                    success |-> (order.body = "success")]>>
                        r == StoreText(d0, texts, err)
                    IN /\ db' = IF r.d.raised THEN DbExit(r.d) ELSE r.d
                       /\ dbPc' = IF r.d.raised THEN "crashed" ELSE "recv"
                       /\ fromDb' = fromDb \o r.out
                       /\ gA' = [gA EXCEPT
                              !.persists = @ + 1,
                              !.persistItems = @ + Len(texts),
                              !.persistFailed = @ \/ r.d.raised,
                              !.acks = @ + Cardinality(
                                  {i \in DOMAIN r.out : r.out[i].t = TEXT}),
                              !.batchEnds = @ + Cardinality(
                                  {i \in DOMAIN r.out : r.out[i].t = END})]
    /\ UNCHANGED <<mmPc, commandsSet, commandsDict, fromCommand, toCommand,
                   toLegi, fromLegi, legi, gM>>
    /\ UNCHANGED quotaVars

(* ---------------------------- LegiConnector --------------------------- *)
\* LegiConnector.__init__ (legiConnector.py 69): no request recorded.  pc is
\* the position in post and _waitIfNeeded, wake the tick at which sleep may
\* return, recorded the history of the ticks at which _waitIfNeeded
\* recorded a request; of the running call of _waitIfNeeded, sleeps is the
\* history of the lengths in seconds that sleep was called with, and held
\* that of the list self._quotas as it was at the call of sleep.
NewConnector ==
    [pc |-> "idle", quotas |-> <<>>, wake |-> 0, recorded |-> <<>>,
     sleeps |-> <<>>, held |-> <<>>]

RECURSIVE CheckQuotas(_, _)
\* _checkQuotas (legiConnector.py 103-107): the leading expiries that are
\* before now are dropped; an expiry is in seconds, now in ticks.
CheckQuotas(quotas, now) ==
    IF quotas # <<>> /\ Head(quotas) * Res < now
    THEN CheckQuotas(Tail(quotas), now)
    ELSE quotas

\* int(time())
IntTime(now) == now \div Res

\* post is called (legiConnector.py 140).
QuotaPost ==
    /\ connector.pc = "idle"
    /\ Len(connector.recorded) < MaxPosts
    /\ connector' = [connector EXCEPT !.pc = "check", !.sleeps = <<>>,
                                      !.held = <<>>]
    /\ UNCHANGED <<sysVars, clock>>

\* _waitIfNeeded (legiConnector.py 87): the first _checkQuotas.
QuotaCheck ==
    /\ connector.pc = "check"
    /\ connector' = [connector EXCEPT
           !.quotas = CheckQuotas(@, clock), !.pc = "test"]
    /\ UNCHANGED <<sysVars, clock>>

\* _waitIfNeeded (legiConnector.py 88-89): with the quota full, sleep is
\* called for the seconds left to the first expiry plus one; sleep raises
\* ValueError on a negative length.
QuotaTest ==
    /\ connector.pc = "test"
    /\ IF Len(connector.quotas) >= QUOTA_LIMIT
       THEN LET secs == connector.quotas[1] - IntTime(clock) + 1
            IN connector' = IF secs < 0
                            THEN [connector EXCEPT !.pc = "raised",
                                      !.sleeps = Append(@, secs),
                                      !.held = connector.quotas]
                            ELSE [connector EXCEPT !.pc = "sleep",
                                      !.wake = clock + secs * Res,
                                      !.sleeps = Append(@, secs),
                                      !.held = connector.quotas]
       ELSE connector' = [connector EXCEPT !.pc = "recheck"]
    /\ UNCHANGED <<sysVars, clock>>

\* sleep returns, the time asked for having passed.
QuotaWake ==
    /\ connector.pc = "sleep"
    /\ clock >= connector.wake
    /\ connector' = [connector EXCEPT !.pc = "recheck"]
    /\ UNCHANGED <<sysVars, clock>>

\* _waitIfNeeded (legiConnector.py 90): the second _checkQuotas.
QuotaRecheck ==
    /\ connector.pc = "recheck"
    /\ connector' = [connector EXCEPT
           !.quotas = CheckQuotas(@, clock), !.pc = "append"]
    /\ UNCHANGED <<sysVars, clock>>

\* _waitIfNeeded (legiConnector.py 91): the request is recorded with its
\* expiry, and _waitIfNeeded returns.
QuotaAppend ==
    /\ connector.pc = "append"
    /\ connector' = [connector EXCEPT
           !.quotas = Append(@, IntTime(clock) + PERIOD),
           !.recorded = Append(@, clock),
           !.pc = "request"]
    /\ UNCHANGED <<sysVars, clock>>

\* post (legiConnector.py 141-145): the request is sent and post returns.
QuotaRequest ==
    /\ connector.pc = "request"
    /\ connector' = [connector EXCEPT !.pc = "idle"]
    /\ UNCHANGED <<sysVars, clock>>

\* Time passes.
Tick ==
    /\ clock < MaxClock
    /\ clock' = clock + 1
    /\ UNCHANGED <<sysVars, connector>>

(* --------------------------- text provider ---------------------------- *)
\* The "results" array of a /search reply (converter.py 187, 190-191): one
\* object per text, whose "titles" array holds first the object with the CID
\* of the text.
Results(cids) ==
    [i \in 1..Len(cids) |-> [titles |-> <<[cid |-> cids[i]]>>]]

\* The replies the remote /search may give for the page asked when current
\* results have been returned so far and the search reported total before
\* (-1: nothing reported yet).  The total of a search does not change, a
\* page holds at least one result while results remain and at most
\* MaxPageLen, and the results of a search are at most its total.
SearchReplies(current, total) ==
    {[totalResultNumber |-> t, results |-> Results(r)] :
        t \in (IF total < 0 THEN 0..MaxTotal ELSE {total}),
        r \in SeqsUpTo(Ids, MaxPageLen)}

WellFormedReply(rep, current) ==
    IF rep.totalResultNumber > current
    THEN Len(rep.results) \in 1..(rep.totalResultNumber - current)
    ELSE rep.results = <<>>

\* The replies a remote /search may give when nothing is taken for granted
\* but a finite total: the total may change from page to page, and a page
\* may be empty, or hold more results than remain.
AnyReplies ==
    {[totalResultNumber |-> t, results |-> Results(r)] :
        t \in 0..MaxTotal, r \in SeqsUpTo(Ids, MaxPageLen)}

\* _getTextIdListHelper (converter.py 183-191) on the reply rep of
\* legiConnector.post: the page asked for (184), the next page, the results
\* so far, the total and the CIDs of the page.
\* The page with its CIDs in the reverse of the order of the reply.
GetTextIdListHelperReversed(pageNumber, resultNumber, rep) ==
    [asked |-> pageNumber,
     pageNumber |-> pageNumber + 1,
     resultNumber |-> resultNumber + Len(rep.results),
     totalResultNumber |-> rep.totalResultNumber,
     textList |-> [i \in 1..Len(rep.results) |->
                     rep.results[Len(rep.results) + 1 - i].titles[1].cid]]

GetTextIdListHelper(pageNumber, resultNumber, rep) ==
    [asked |-> pageNumber,
     pageNumber |-> pageNumber + 1,
     resultNumber |-> resultNumber + Len(rep.results),
     totalResultNumber |-> rep.totalResultNumber,
     textList |-> [i \in 1..Len(rep.results) |->
                     rep.results[i].titles[1].cid]]

\* _filterLegiText (converter.py 233-237) on a /consult/jorf reply with
\* rep.articles elements in "articles", the first holding rep.content: the
\* content, or "none" (None) unless there is exactly one element; a reply
\* without "articles" raises KeyError.
FilterLegiText(rep) ==
    IF ~rep.hasArticles THEN "KeyError"
    ELSE IF rep.articles = 1 THEN rep.content ELSE "none"

\* What a call for /consult/jorf with textCid e may give: a reply with an
\* "articles" array, a reply without one, or no reply (the service fails:
\* the request or the decoding of its answer raises in LegiConnector.post,
\* 144-145).  The "cid" of a reply is that of the text asked for.
ConsultReplies(e) ==
    {[status |-> "ok", cid |-> e, hasArticles |-> TRUE, articles |-> n,
      content |-> c] :
        n \in 0..MaxArticles, c \in {"match", "nomatch"}}
    \cup {[status |-> "ok", cid |-> e, hasArticles |-> FALSE, articles |-> 0,
           content |-> "nomatch"],
          [status |-> "error", cid |-> e, hasArticles |-> FALSE,
           articles |-> 0, content |-> "nomatch"]}

\* A reply that lacks the content array or holds other than one element.
Incomplete(rep) ==
    rep.status = "ok" /\ (~rep.hasArticles \/ rep.articles # 1)

\* post without _waitIfNeeded: the request is sent at once.
PostUnguarded(l) == [l EXCEPT !.requests = @ + 1]

\* LegiConnector.post (legiConnector.py 140-145) as the text provider sees
\* it: _waitIfNeeded returns, then the request is sent.  acquired and
\* requests count, for the order being executed, the calls of
\* _waitIfNeeded that returned and the requests sent; results is the
\* "results" array of the last /search reply of the list being executed
\* and asked the page number of the request it answers.
Post(l) == [l EXCEPT !.acquired = @ + 1, !.requests = @ + 1]

LegiIdle == [pc |-> "recv", job |-> 0, pageNumber |-> 0, current |-> 0,
             total |-> 0, todo |-> <<>>, raised |-> "",
             acquired |-> 0, requests |-> 0, results |-> <<>>, asked |-> 0]

\* createTextProvider (converter.py 107-108, 116): the next order is read.
\* TEXT_LIST starts _getTextIdList (145), TEXT starts _getText (209-213).
LegiRecv ==
    /\ legi.pc = "recv"
    /\ toLegi # <<>>
    /\ LET order == Head(toLegi)
       IN /\ toLegi' = Tail(toLegi)
          /\ legi' = IF order.t = END THEN [LegiIdle EXCEPT !.pc = "ended"]
                     ELSE IF order.t = TEXT_LIST
                     THEN [LegiIdle EXCEPT !.pc = "list", !.job = order.job,
                                           !.pageNumber = 1, !.total = -1]
                     ELSE IF order.ids = <<>> THEN LegiIdle
                     ELSE [LegiIdle EXCEPT !.pc = "text", !.todo = order.ids]
    /\ UNCHANGED <<mmPc, commandsSet, commandsDict, fromCommand, toCommand,
                   fromLegi, toDb, fromDb, dbPc, db, gM, gA>>
    /\ UNCHANGED quotaVars

\* The loop of _getTextIdList goes on after a page while the results so
\* far exceed the total, or equal it.
MorePagesInclusive(current, total) == current <= total

\* _getTextIdList (converter.py 151): the loop goes on while the results
\* so far are fewer than the total.
MorePages(current, total) == current < total

Sat(n) == IF n > MaxPages THEN MaxPages ELSE n

\* _getTextIdList (converter.py 146-154) and createTextProvider (110-111):
\* one page is asked for with legiConnector.post (185) and sent, the reply
\* being one of replies; the loop goes on while MorePages.
ListPageWith(replies) ==
    /\ legi.pc = "list"
    /\ \E rep \in replies :
          LET h == GetTextIdListHelper(legi.pageNumber, legi.current, rep)
          IN /\ fromLegi' = Append(fromLegi, ListPage(legi.job, h.textList))
             /\ legi' = [Post(legi) EXCEPT
                    !.asked = h.asked,
                    !.pageNumber = Sat(h.pageNumber),
                    !.current = h.resultNumber,
                    !.total = h.totalResultNumber,
                    !.results = rep.results,
                    !.acquired = Sat(@),
                    !.requests = Sat(@),
                    !.pc = IF MorePages(h.resultNumber, h.totalResultNumber)
                           THEN "list" ELSE "listEnd"]
             /\ gA' = [gA EXCEPT !.emptyListed = @ \cup
                         (IF h.textList = <<>> THEN {legi.job} ELSE {})]
    /\ UNCHANGED <<mmPc, commandsSet, commandsDict, fromCommand, toCommand,
                   toLegi, toDb, fromDb, dbPc, db, gM>>
    /\ UNCHANGED quotaVars

\* A page of a listing whose total does not change and whose pages hold a
\* result at least while results remain.
LegiListPage ==
    ListPageWith({rep \in SearchReplies(legi.current, legi.total) :
                     WellFormedReply(rep, legi.current)})

\* A page of a listing of which nothing is taken for granted.
LegiListPageAny == ListPageWith(AnyReplies)

\* createTextProvider (converter.py 112): the end of the list is sent.
LegiListEnd ==
    /\ legi.pc = "listEnd"
    /\ fromLegi' = Append(fromLegi, ListEnd(legi.job))
    /\ legi' = LegiIdle
    /\ UNCHANGED <<mmPc, commandsSet, commandsDict, fromCommand, toCommand,
                   toLegi, toDb, fromDb, dbPc, db, gM, gA>>
    /\ UNCHANGED quotaVars

\* _getText (converter.py 213-215) and createTextProvider (114-115): the
\* next text is asked for with legiConnector.post (214), filtered and sent
\* under the "cid" of the reply (233).
\* An exception of post or of _filterLegiText ends the text provider.
LegiText ==
    /\ legi.pc = "text"
    /\ \E rep \in ConsultReplies(Head(legi.todo)) :
          LET e == Head(legi.todo)
              text == FilterLegiText(rep)
              l == Post(legi)
              asked == [gA EXCEPT
                          !.remoteFailed = @ \cup
                              (IF rep.status = "error" THEN {e} ELSE {}),
                          !.incomplete = @ \cup
                              (IF Incomplete(rep) THEN {e} ELSE {})]
          IN IF rep.status = "error"
             THEN /\ legi' = [l EXCEPT !.pc = "crashed",
                                       !.raised = "RequestError"]
                  /\ gA' = asked
                  /\ UNCHANGED fromLegi
             ELSE IF text = "KeyError"
             THEN /\ legi' = [l EXCEPT !.pc = "crashed",
                                       !.raised = "KeyError"]
                  /\ gA' = asked
                  /\ UNCHANGED fromLegi
             ELSE /\ fromLegi' = Append(fromLegi,
                                        FetchedText(rep.cid, text))
                  /\ legi' = IF Tail(legi.todo) = <<>> THEN LegiIdle
                             ELSE [l EXCEPT !.todo = Tail(@)]
                  /\ gA' = [asked EXCEPT !.fetched = @ \cup {e}]
    /\ UNCHANGED <<mmPc, commandsSet, commandsDict, fromCommand, toCommand,
                   toLegi, toDb, fromDb, dbPc, db, gM>>
    /\ UNCHANGED quotaVars

(* ------------------------------ Middleman ----------------------------- *)
\* Pattern.match (basePattern.py 219-223) of the patterns of a filter on a
\* content: re.match raises TypeError on None; otherwise the content
\* matches a pattern or none of them.
PatternMatch(content) ==
    IF content = "none" THEN "TypeError"
    ELSE IF content = "match" THEN "matched" ELSE "None"

\* _parseText (converter.py 65-78): "success", "failure", or the exception
\* of the first patterns[index].match call.
ParseText(content) ==
    LET tmpResult == PatternMatch(content)
    IN IF tmpResult = "TypeError" THEN "TypeError"
       ELSE IF tmpResult = "None" THEN "failure" ELSE "success"

\* Continue without its second operand: the CIDs still in
\* self._commandsDict are not waited for.
ContinueSetOnly == commandsSet # {}

\* Middleman._continue (converter.py 530).
Continue == commandsSet # {} \/ DOMAIN commandsDict # {}

\* Middleman.__init__ (converter.py 445-446): the loop goes on and
\* connection.wait returns, one pipe at least being ready.
MiddlemanWait ==
    /\ mmPc = "loop"
    /\ Continue
    /\ fromCommand # <<>> \/ fromLegi # <<>> \/ fromDb # <<>>
    /\ mmPc' = "order"
    /\ UNCHANGED <<commandsSet, commandsDict, pipes, legi, dbPc, db, gM, gA>>
    /\ UNCHANGED quotaVars

\* The loop is left whatever _continue says.
MiddlemanEndUnasked ==
    /\ mmPc = "loop"
    /\ mmPc' = "done"
    /\ toLegi' = Append(toLegi, EndMsg)
    /\ toDb' = Append(toDb, EndMsg)
    /\ toCommand' = Append(toCommand, EndMsg)
    /\ UNCHANGED <<commandsSet, commandsDict, fromCommand, fromLegi, fromDb,
                   legi, dbPc, db, gM, gA>>
    /\ UNCHANGED quotaVars

\* Middleman.__init__ (converter.py 445, 451-454): the loop is left, END is
\* sent to both agents and to the control connection.
MiddlemanEnd ==
    /\ mmPc = "loop"
    /\ ~Continue
    /\ mmPc' = "done"
    /\ toLegi' = Append(toLegi, EndMsg)
    /\ toDb' = Append(toDb, EndMsg)
    /\ toCommand' = Append(toCommand, EndMsg)
    /\ UNCHANGED <<commandsSet, commandsDict, fromCommand, fromLegi, fromDb,
                   legi, dbPc, db, gM, gA>>
    /\ UNCHANGED quotaVars

\* Orders are read whether "wait" is in the set or not.
AcceptingAlways == TRUE

\* Middleman._handleOrder (converter.py 458): "wait" in self._commandsSet.
Accepting == Wait \in commandsSet

\* Middleman._handleOrder (converter.py 458-464): one turn of its loop, or
\* its end when the control pipe is empty or "wait" is gone.
HandleOrder ==
    /\ mmPc = "order"
    /\ IF fromCommand # <<>> /\ Accepting
       THEN LET message == Head(fromCommand)
            IN /\ fromCommand' = Tail(fromCommand)
               /\ mmPc' = mmPc
               /\ IF message.t = END
                  THEN /\ commandsSet' = commandsSet \ {Wait}
                       /\ gM' = [gM EXCEPT !.endAtOpen =
                                   @ \/ (commandsSet \ {Wait}) # {}]
                       /\ UNCHANGED toLegi
                  ELSE IF message.job \in Jobs
                  THEN /\ commandsSet' = commandsSet \cup {message.job}
                       /\ toLegi' = Append(toLegi, ListOrder(message.job))
                       /\ gM' = [gM EXCEPT !.listSent = @ \cup {message.job}]
                  ELSE \* neither END nor a search filter: nothing is done
                       /\ gM' = [gM EXCEPT !.ignored = @ \cup {"command"}]
                       /\ UNCHANGED <<commandsSet, toLegi>>
       ELSE /\ mmPc' = "legi"
            /\ UNCHANGED <<commandsSet, fromCommand, toLegi, gM>>
    /\ UNCHANGED <<commandsDict, toCommand, fromLegi, toDb, fromDb, legi,
                   dbPc, db, gA>>
    /\ UNCHANGED quotaVars

\* Middleman._handleLegiMsg (converter.py 468-490): one turn of its loop, or
\* its end when the pipe is empty.  An exception ends the Middleman; a
\* message of no known kind is printed and the loop goes on (489-490).
HandleLegiMsg ==
    /\ mmPc = "legi"
    /\ IF fromLegi # <<>>
       THEN LET message == Head(fromLegi)
            IN /\ fromLegi' = Tail(fromLegi)
               /\ IF message.t = END
                  THEN \* set.remove raises KeyError on a missing element
                       IF message.job \in commandsSet
                       THEN /\ commandsSet' = commandsSet \ {message.job}
                            /\ gM' = [gM EXCEPT !.eolSeen = @ \cup {message.job}]
                            /\ UNCHANGED <<mmPc, commandsDict, toDb>>
                       ELSE /\ mmPc' = "crashed"
                            /\ gM' = [gM EXCEPT !.crash = "KeyError",
                                                !.site = "eol"]
                            /\ UNCHANGED <<commandsSet, commandsDict, toDb>>
                  ELSE IF message.t = TEXT_LIST
                  THEN /\ toDb' = Append(toDb, CheckOrder(message.ids, message.job))
                       /\ IF message.ids = <<>>
                          THEN \* message[2][0] raises IndexError (479)
                               /\ mmPc' = "crashed"
                               /\ gM' = [gM EXCEPT !.crash = "IndexError",
                                                   !.site = "page"]
                               /\ UNCHANGED <<commandsSet, commandsDict>>
                          ELSE /\ commandsDict' = DictSet(commandsDict,
                                       message.ids[1], message.job)
                               /\ gM' = [gM EXCEPT
                                      !.pending = Append(@, message.ids)]
                               /\ UNCHANGED <<mmPc, commandsSet>>
                  ELSE IF message.t = TEXT
                  THEN \* commandsDict[cid] raises KeyError (486)
                       IF message.cid \notin DOMAIN commandsDict
                       THEN /\ mmPc' = "crashed"
                            /\ gM' = [gM EXCEPT !.crash = "KeyError",
                                                !.site = "text"]
                            /\ UNCHANGED <<commandsSet, commandsDict, toDb>>
                       ELSE LET text == ParseText(message.body)
                                seen == [gM EXCEPT
                                    !.extracted = @ \cup
                                        {<<message.cid, message.body>>},
                                    !.noContent = @ \cup
                                        (IF message.body = "none"
                                         THEN {message.cid} ELSE {})]
                            IN IF text = "TypeError"
                               THEN /\ mmPc' = "crashed"
                                    /\ gM' = [seen EXCEPT !.crash = "TypeError",
                                                          !.site = "text"]
                                    /\ UNCHANGED <<commandsSet, commandsDict, toDb>>
                               ELSE /\ toDb' = Append(toDb,
                                          StoreOrder(message.cid, text))
                                    /\ gM' = [seen EXCEPT
                                         !.persistSent = @ \cup {message.cid},
                                         !.failureSent = @ \cup
                                            (IF text = "failure"
                                             THEN {message.cid} ELSE {})]
                                    /\ UNCHANGED <<mmPc, commandsSet, commandsDict>>
                  ELSE \* print("_handleLegiMsg not yet implemented: ...")
                       /\ gM' = [gM EXCEPT !.ignored = @ \cup {"legi"}]
                       /\ UNCHANGED <<mmPc, commandsSet, commandsDict, toDb>>
       ELSE /\ mmPc' = "db"
            /\ UNCHANGED <<commandsSet, commandsDict, fromLegi, toDb, gM>>
    /\ UNCHANGED <<fromCommand, toCommand, toLegi, fromDb, legi, dbPc, db, gA>>
    /\ UNCHANGED quotaVars

\* Middleman._handleDbMsg (converter.py 494-511): one turn of its loop, or
\* its end when the pipe is empty.  dict.pop raises KeyError on a missing
\* key, which ends the Middleman; a message of no known kind is printed and
\* the loop goes on (510-511).
HandleDbMsg ==
    /\ mmPc = "db"
    /\ IF fromDb # <<>>
       THEN LET message == Head(fromDb)
                p == Pop(commandsDict, message.cid)
            IN /\ fromDb' = Tail(fromDb)
               /\ IF message.t = END
                  THEN UNCHANGED <<mmPc, commandsDict, toLegi, gM>>
                  ELSE IF message.t = TEXT_LIST
                  THEN IF p.raised
                       THEN /\ mmPc' = "crashed"
                            /\ gM' = [gM EXCEPT !.crash = "KeyError",
                                                !.site = "reply"]
                            /\ UNCHANGED <<commandsDict, toLegi>>
                       ELSE LET criteria == p.value
                            IN /\ commandsDict' =
                                      DictSetAll(p.dict, message.ids, criteria)
                               /\ toLegi' = IF message.ids # <<>>
                                            THEN Append(toLegi, FetchOrder(message.ids))
                                            ELSE toLegi
                               /\ gM' = [gM EXCEPT
                                      !.routed = @ \cup {<<message.org, criteria>>},
                                      !.tracked = @ \cup Range(message.ids),
                                      !.pending = Tail(@),
                                      !.rejected = @ \cup
                                          (Range(Head(gM.pending))
                                              \ Range(message.ids)),
                                      !.fetchSent = @ \cup Range(message.ids)]
                               /\ UNCHANGED mmPc
                  ELSE IF message.t = TEXT
                  THEN IF p.raised
                       THEN /\ mmPc' = "crashed"
                            /\ gM' = [gM EXCEPT !.crash = "KeyError",
                                                !.site = "ack"]
                            /\ UNCHANGED <<commandsDict, toLegi>>
                       ELSE /\ commandsDict' = p.dict
                            /\ gM' = [gM EXCEPT !.acked = @ \cup {message.cid}]
                            /\ UNCHANGED <<mmPc, toLegi>>
                  ELSE \* print("handleDbMsg not yet implemented: ...")
                       /\ gM' = [gM EXCEPT !.ignored = @ \cup {"db"}]
                       /\ UNCHANGED <<mmPc, commandsDict, toLegi>>
       ELSE /\ mmPc' = "loop"
            /\ UNCHANGED <<commandsDict, fromDb, toLegi, gM>>
    /\ UNCHANGED <<commandsSet, fromCommand, toCommand, fromLegi, toDb, legi,
                   dbPc, db, gA>>
    /\ UNCHANGED quotaVars

(* ------------------------------ the system ---------------------------- *)
\* The sequences of search filters the control side submits, up to the
\* names of the filters: a filter is numbered by its first submission.
Submissions ==
    {js \in SeqsUpTo(Jobs, MaxJobs) :
        \A i \in DOMAIN js :
            js[i] <= 1 + Cardinality({js[k] : k \in 1..(i - 1)})}

\* main.py 40-42: the submissions js, then END.
ControlPipe(js) == [i \in 1..Len(js) |-> JobMsg(js[i])] \o <<EndMsg>>

\* The history of the agents at the start of a run on a store that holds
\* the CIDs stored, with the submissions js.
NewGA(stored, js) ==
    [store0 |-> stored, submitted |-> js, fetched |-> {},
     checked |-> {}, replied |-> {},
     persists |-> 0, persistItems |-> 0,
     persistFailed |-> FALSE, acks |-> 0, batchEnds |-> 0,
     strays |-> {}, emptyListed |-> {},
     remoteFailed |-> {}, incomplete |-> {}]

\* The history of the Middleman at the start of run number run; prior: the
\* CIDs that the run before it sent for storage.  pending holds, in the
\* order they were sent, the pages sent to the DB manager whose reply has
\* not been handled (the DB manager answers in order); rejected the CIDs of
\* a page that its reply left out.
NewGM(run, prior) ==
    [listSent |-> {}, eolSeen |-> {}, endAtOpen |-> FALSE,
     routed |-> {}, tracked |-> {},
     fetchSent |-> {}, extracted |-> {}, noContent |-> {},
     persistSent |-> {}, failureSent |-> {}, acked |-> {},
     crash |-> "", site |-> "", ignored |-> {},
     pending |-> <<>>, rejected |-> {},
     run |-> run, prior |-> prior]

\* main.py 29-45: the submissions and END are on the control pipe before
\* the three processes start; the store holds any CIDs of earlier runs.
InitWith(subs) ==
    /\ mmPc = "loop"
    /\ commandsSet = {Wait}
    /\ commandsDict = EmptyDict
    /\ toCommand = <<>>
    /\ toLegi = <<>>
    /\ fromLegi = <<>>
    /\ toDb = <<>>
    /\ fromDb = <<>>
    /\ legi = LegiIdle
    /\ dbPc = "start"
    /\ \E js \in subs : \E acc \in SUBSET Ids : \E fai \in SUBSET (Ids \ acc) :
          /\ fromCommand = ControlPipe(js)
          /\ db = NewDb([accepted |-> acc, failed |-> fai, records |-> acc])
          /\ gA = NewGA(acc \cup fai, js)
    /\ connector = NewConnector
    /\ clock = 0
    /\ gM = NewGM(1, {})

\* Any sequence of submissions.
Init == InitWith(Submissions)

\* main.py 40-41: every search filter is submitted once.
InitDistinct ==
    InitWith({js \in Submissions :
                 \A i, k \in DOMAIN js : js[i] = js[k] => i = k})

Next ==
    \/ MiddlemanWait
    \/ HandleOrder
    \/ HandleLegiMsg
    \/ HandleDbMsg
    \/ MiddlemanEnd
    \/ LegiRecv
    \/ LegiListPage
    \/ LegiListEnd
    \/ LegiText
    \/ DbManager

Spec == Init /\ [][Next]_vars

\* The agent's end of a duplex pipe (main.py 29-30) carries one object that
\* is no message of the protocol, once per pipe at most.
StrayMessage ==
    /\ \E ch \in {"legi", "db"} \ gA.strays :
          /\ gA' = [gA EXCEPT !.strays = @ \cup {ch}]
          /\ IF ch = "legi"
             THEN fromLegi' = Append(fromLegi, Stray) /\ UNCHANGED fromDb
             ELSE fromDb' = Append(fromDb, Stray) /\ UNCHANGED fromLegi
    /\ UNCHANGED <<mmPc, commandsSet, commandsDict, fromCommand, toCommand,
                   toLegi, toDb, legi, dbPc, db, gM>>
    /\ UNCHANGED quotaVars

\* One search filter is submitted after an object that is no search filter.
InitStray == InitWith({<<0, 1>>})

NextStray == Next \/ StrayMessage

SpecStray == InitStray /\ [][NextStray]_vars

SpecDistinct == InitDistinct /\ [][Next]_vars

\* The program is run a second time (main.py 27-48) once nothing moves any
\* more in the first run, every process having ended, raised, or being held
\* on a pipe for ever: new pipes and processes, the same submissions, the
\* store as the first run left it.
Restart ==
    /\ ~ENABLED Next
    /\ gM.run = 1
    /\ mmPc' = "loop"
    /\ commandsSet' = {Wait}
    /\ commandsDict' = EmptyDict
    /\ fromCommand' = ControlPipe(gA.submitted)
    /\ toCommand' = <<>>
    /\ toLegi' = <<>>
    /\ fromLegi' = <<>>
    /\ toDb' = <<>>
    /\ fromDb' = <<>>
    /\ legi' = LegiIdle
    /\ dbPc' = "start"
    /\ db' = NewDb(db.store)
    /\ gA' = NewGA(db.store.accepted \cup db.store.failed, gA.submitted)
    /\ gM' = NewGM(2, gM.persistSent)
    /\ UNCHANGED quotaVars

\* The first run starts on an empty store, with no search filter or one.
InitRestart == InitWith({<<>>, <<1>>}) /\ gA.store0 = {}

NextRestart == Next \/ Restart

SpecRestart == InitRestart /\ [][NextRestart]_vars

\* The connector alone: calls of post and the passing of time.
InitQuota == InitWith({<<>>}) /\ gA.store0 = {}

NextQuota ==
    \/ QuotaPost
    \/ QuotaCheck
    \/ QuotaTest
    \/ QuotaWake
    \/ QuotaRecheck
    \/ QuotaAppend
    \/ QuotaRequest
    \/ Tick

SpecQuota == InitQuota /\ [][NextQuota]_vars

(* ------------------------------ properties ---------------------------- *)
\* No process can take a step: every one has ended, has raised, or waits on
\* a pipe that nobody will write.
Quiescent == ~ENABLED Next

Extracted == {p[1] : p \in gM.extracted}

\* The events of the connection's log from the last call of _storeText to
\* the end of that call.
RECURSIVE LastCall(_)
LastCall(log) ==
    IF log = <<>> THEN <<>>
    ELSE IF \E i \in DOMAIN log : i > 1 /\ log[i] = "begin"
         THEN LastCall(Tail(log))
         ELSE IF Head(log) = "begin" THEN log ELSE <<>>

RECURSIVE UpToEnd(_)
UpToEnd(call) ==
    IF call = <<>> THEN <<>>
    ELSE IF Head(call) = "end" THEN <<"end">>
         ELSE <<Head(call)>> \o UpToEnd(Tail(call))

Count(call, ev) == Cardinality({i \in DOMAIN call : call[i] = ev})

\* C1 (drain liveness): whatever was submitted before End-of-submissions,
\* the Middleman reaches Done: the system never comes to rest with the
\* Middleman short of Done.
C1_DrainLiveness == Quiescent => mmPc = "done"

\* C2 (termination safety): the Middleman leaves its loop exactly from the
\* loop test with "wait" gone, no filter left in the set and no CID left in
\* the dictionary; once Done, every filter it listed has had its
\* End-of-list processed and every CID it tracked has been acknowledged.
C2_TerminationSafety ==
    /\ [](mmPc = "done" =>
            /\ Wait \notin commandsSet
            /\ commandsSet = {}
            /\ DOMAIN commandsDict = {}
            /\ gM.listSent \subseteq gM.eolSeen
            /\ gM.tracked \subseteq gM.acked)
    /\ [][mmPc' # mmPc =>
            ((mmPc' = "done") <=>
                (mmPc = "loop" /\ commandsSet = {} /\ DOMAIN commandsDict = {}))]_vars

\* C2's case: Done reached although End-of-submissions was read while a
\* filter's listing was open, one listing page at least having been checked.
C2_Witness ==
    mmPc = "done" /\ gM.endAtOpen /\ gM.routed # {} /\ gM.eolSeen # {}

\* C3 (exactly one terminal outcome): when the system has come to rest,
\* every CID the text provider sent a text for was forwarded for storage,
\* is in exactly one of the two tables, and was acknowledged and retired.
C3_OneTerminalOutcome ==
    Quiescent =>
        \A c \in gA.fetched :
            /\ c \in gM.persistSent
            /\ (c \in db.store.accepted) # (c \in db.store.failed)
            /\ c \in gM.acked
            /\ c \notin DOMAIN commandsDict

\* C4 (no duplicate persistence): a CID that the store held before the run
\* is in no reply of the DB manager, in no fetch order, is never fetched,
\* never parsed and never sent for storage.
C4_NoDuplicatePersistence ==
    \A c \in gA.store0 :
        /\ c \notin gA.replied
        /\ c \notin gM.fetchSent
        /\ c \notin gA.fetched
        /\ c \notin Extracted
        /\ c \notin gM.persistSent
        /\ \A i \in DOMAIN fromDb :
              fromDb[i].t = TEXT_LIST => c \notin Range(fromDb[i].ids)
        /\ \A i \in DOMAIN toLegi :
              toLegi[i].t = TEXT => c \notin Range(toLegi[i].ids)

\* C4's case: a page holding a stored CID and a new CID was checked, and
\* the new CID went on to be fetched and sent for storage.
C4_Witness ==
    /\ gA.store0 \cap gA.checked # {}
    /\ gM.persistSent # {}

\* C5 (routing correctness): every reply of the DB manager that the
\* Middleman processed was attributed to the filter whose listing page
\* made the request.
C5_RoutingCorrectness == \A p \in gM.routed : p[1] = p[2]

\* C6 (no work abandoned at shutdown): once the Middleman has sent END to
\* the agents, no other order is unread or being executed by an agent, and
\* no page, text, reply or acknowledgment is unread by the Middleman.
C6_NoWorkAbandoned ==
    mmPc = "done" =>
        /\ \A i \in DOMAIN toLegi : toLegi[i] = EndMsg
        /\ \A i \in DOMAIN toDb : toDb[i] = EndMsg
        /\ legi.pc \in {"recv", "ended"}
        /\ dbPc \in {"start", "recv", "ended"}
        /\ fromLegi = <<>>
        /\ \A i \in DOMAIN fromDb : fromDb[i] = EndMsg

\* C7 (missing content): a text that arrives without content is not given
\* to the patterns, is sent for storage as a failure, and does not make the
\* Middleman fail.
C7_MissingContentRecorded ==
    \A c \in gM.noContent :
        /\ <<c, "none">> \notin gM.extracted
        /\ c \in gM.failureSent
        /\ gM.crash # "TypeError"

\* C8 (persistence failure surfaced): the step in which a storage call
\* fails sends the Middleman a message.
C8_PersistFailureSurfaced ==
    [][(gA'.persistFailed /\ ~gA.persistFailed) => Len(fromDb') > Len(fromDb)]_vars

\* C9 (Persist is atomic): in a call of _storeText, either one commit is
\* issued, after every write of the call and with no exception in the call,
\* or no commit is issued and the store is as it was before the call.
C9_PersistAtomic ==
    LET call == UpToEnd(LastCall(db.log))
    IN IF Count(call, "commit") > 0
       THEN /\ Count(call, "commit") = 1
            /\ Count(call, "raise") = 0
            /\ Len(call) >= 2
            /\ call[Len(call) - 1] = "commit"
       ELSE db.store = db.snap

\* C9's case: a storage call wrote a batch, failed before its commit, and
\* left the store as it was.
C9_Witness ==
    LET call == UpToEnd(LastCall(db.log))
    IN /\ Count(call, "write") > 0
       /\ Count(call, "raise") > 0
       /\ db.pending = <<>>
       /\ db.store = db.snap

\* C10 (acknowledgment protocol): the DB manager has sent one
\* acknowledgment for every text of every storage order it executed, and
\* one End-of-batch for every such order.
C10_AckProtocol ==
    /\ gA.acks = gA.persistItems
    /\ gA.batchEnds = gA.persists

\* The Middleman takes the message at the head of the DB manager's pipe.
TakesDbMsg == mmPc = "db" /\ fromDb # <<>> /\ fromDb' = Tail(fromDb)

\* The Middleman does nothing: its variables keep their values, it sends
\* nothing and reads nothing.
MiddlemanStill ==
    /\ UNCHANGED <<mmPc, commandsSet, commandsDict, fromCommand, toCommand>>
    /\ Len(toLegi') <= Len(toLegi)
    /\ Len(toDb') <= Len(toDb)
    /\ Len(fromLegi') >= Len(fromLegi)
    /\ Len(fromDb') >= Len(fromDb)

\* C11 (unknown correlation key is fatal): when the Middleman takes a reply
\* of the DB manager to a check whose first CID is not a key of its
\* dictionary, it ends with KeyError, sends no fetch order and adds no key;
\* once ended that way it takes no other message and sends nothing.
C11_UnknownKeyFatal ==
    [][/\ (TakesDbMsg /\ Head(fromDb).t = TEXT_LIST
              /\ Head(fromDb).cid \notin DOMAIN commandsDict)
          => /\ mmPc' = "crashed"
             /\ gM'.crash = "KeyError"
             /\ toLegi' = toLegi
             /\ commandsDict' = commandsDict
             /\ gM'.fetchSent = gM.fetchSent
       /\ mmPc = "crashed" => MiddlemanStill]_vars

\* C11's case: a reply with an unknown first CID was taken and ended the
\* Middleman while another message was waiting in one of its pipes.
C11_Witness ==
    /\ mmPc = "crashed"
    /\ gM.site = "reply"
    /\ fromLegi # <<>> \/ fromDb # <<>>

\* The Middleman takes the message at the head of the text provider's pipe,
\* or of the control pipe.
TakesLegiMsg == mmPc = "legi" /\ fromLegi # <<>> /\ fromLegi' = Tail(fromLegi)

TakesOrder ==
    /\ mmPc = "order"
    /\ fromCommand # <<>>
    /\ fromCommand' = Tail(fromCommand)

\* The messages each handler knows: END, a list marker or a text marker from
\* an agent; END or a search filter from the control connection.
KnownFromAgent(message) == message.t \in {END, TEXT_LIST, TEXT}

KnownOrder(message) ==
    message = EndMsg \/ (message.t = "JOB" /\ message.job \in Jobs)

\* C12 (a protocol violation is fatal): when the Middleman takes, from the
\* text provider, the DB manager or the control connection, a message that
\* is none of those its handler knows, it ends at once.
C12_ProtocolViolationFatal ==
    [][/\ (TakesLegiMsg /\ ~KnownFromAgent(Head(fromLegi))) => mmPc' = "crashed"
       /\ (TakesDbMsg /\ ~KnownFromAgent(Head(fromDb))) => mmPc' = "crashed"
       /\ (TakesOrder /\ ~KnownOrder(Head(fromCommand))) => mmPc' = "crashed"]_vars

\* The requests recorded whose time is within the PERIOD seconds before now.
InWindow(recorded, now) ==
    Cardinality({i \in DOMAIN recorded : recorded[i] > now - PERIOD * Res})

\* C13 (Quota Guard contract): when _waitIfNeeded has returned, the
\* requests it recorded within the last PERIOD seconds, the new one
\* included, are at most QUOTA_LIMIT, times being read on the fine clock;
\* and _waitIfNeeded never raises.
C13_QuotaGuard ==
    /\ connector.pc = "request" =>
          InWindow(connector.recorded, clock) <= QUOTA_LIMIT
    /\ connector.pc # "raised"

\* C14 (every request passes the quota guard first): in the order the text
\* provider is executing, the requests sent are as many as the calls of
\* _waitIfNeeded that have returned, and in a listing one request has been
\* sent for each page asked.
C14_RequestsGuarded ==
    /\ legi.requests = legi.acquired
    /\ legi.pc \in {"list", "listEnd"} => legi.requests = legi.pageNumber - 1

\* C14's case: in a fetch order of two texts the first has been asked for,
\* after a listing of two pages.
C14_Witness ==
    /\ legi.pc = "text"
    /\ legi.requests = 1
    /\ Len(legi.todo) = 1
    /\ gM.eolSeen # {}

\* C15 (zero-result listings are tolerated): no check order with an empty
\* list of CIDs is sent to the DB manager; neither the Middleman nor the DB
\* manager ends on an empty page; and when the system has come to rest,
\* every filter whose listing was empty has left self._commandsSet.
C15_ZeroResultTolerated ==
    /\ \A i \in DOMAIN toDb : toDb[i].t = TEXT_LIST => toDb[i].ids # <<>>
    /\ gM.crash # "IndexError"
    /\ dbPc = "crashed" => gA.persistFailed
    /\ Quiescent => gA.emptyListed \cap commandsSet = {}

\* C16 (fetch fails soft on an incomplete reply): the step in which the
\* text provider gets, for a CID, a reply without the content array or with
\* other than one element in it does not end the text provider, sends one
\* text message for that CID with no content, and leaves the other CIDs of
\* the order to be asked for.
C16_FetchFailsSoft ==
    [][gA'.incomplete # gA.incomplete =>
          /\ legi'.pc # "crashed"
          /\ fromLegi' = Append(fromLegi, FetchedText(Head(legi.todo), "none"))
          /\ Tail(legi.todo) # <<>> =>
                (legi'.pc = "text" /\ legi'.todo = Tail(legi.todo))]_vars

\* C17 (a remote failure is per item): the step in which the remote call
\* for one CID of a fetch order fails does not end the text provider, sends
\* for that CID a text message with no content (to be stored as a failure),
\* and leaves the other CIDs of the order to be asked for.
C17_RemoteFailurePerItem ==
    [][gA'.remoteFailed # gA.remoteFailed =>
          /\ legi'.pc # "crashed"
          /\ Head(legi.todo) \in gA'.fetched
          /\ fromLegi' = Append(fromLegi, FetchedText(Head(legi.todo), "none"))
          /\ Tail(legi.todo) # <<>> =>
                (legi'.pc = "text" /\ legi'.todo = Tail(legi.todo))]_vars

RunTerminated ==
    /\ mmPc \in {"done", "crashed"}
    /\ legi.pc \in {"ended", "crashed"}
    /\ dbPc \in {"ended", "crashed"}

\* C19 (the run terminates on an agent failure): when nothing moves any
\* more, the three processes have ended: none is held for ever on a pipe
\* that a stopped process will never write.
C19_RunTerminates == Quiescent => RunTerminated

\* The DB manager takes a check order with a list of CIDs that is not empty.
TakesCheckOrder ==
    /\ dbPc \in {"start", "recv"}
    /\ toDb # <<>>
    /\ toDb' = Tail(toDb)
    /\ Head(toDb).t = TEXT_LIST
    /\ Head(toDb).ids # <<>>

\* The CIDs of the list that the store holds in neither table, in the
\* order of the list.
NotStored(store, cidList) ==
    SelectSeq(cidList, LAMBDA c : c \notin store.accepted \cup store.failed)

\* C20 (result of a check): for a list of CIDs that is not empty the DB
\* manager sends one message and no more: the list marker, the first CID of
\* the list as received, and the CIDs of the list that the store does not
\* hold, in the order of the list; the store is left as it was.
C20_CheckNewResult ==
    [][TakesCheckOrder =>
          LET L == Head(toDb).ids
          IN /\ Len(fromDb') = Len(fromDb) + 1
             /\ SubSeq(fromDb', 1, Len(fromDb)) = fromDb
             /\ fromDb'[Len(fromDb')].t = TEXT_LIST
             /\ fromDb'[Len(fromDb')].cid = L[1]
             /\ fromDb'[Len(fromDb')].ids = NotStored(db.store, L)
             /\ db'.store = db.store
             /\ dbPc' = "recv"]_vars

\* C20's cases: a reply whose first CID is itself stored while another CID
\* of the list is new, and a reply with an empty list.
C20_Witness ==
    \E i, k \in DOMAIN fromDb :
        /\ fromDb[i].t = TEXT_LIST
        /\ fromDb[i].cid \in gA.store0
        /\ fromDb[i].ids # <<>>
        /\ fromDb[k].t = TEXT_LIST
        /\ fromDb[k].ids = <<>>


(* ------------------- claims on listing and tracking ------------------- *)
\* A step of the text provider that sends one page of a list.
SendsPage ==
    /\ legi.pc = "list"
    /\ Len(fromLegi') > Len(fromLegi)

\* C21: order preservation within one page.  The page sent for a /search
\* reply is one TEXT_LIST message of the list's search filter whose CIDs
\* are, element for element and in the same order, the CIDs of the
\* results of that reply.
C21_PageOrder ==
    [][SendsPage =>
          /\ Len(fromLegi') = Len(fromLegi) + 1
          /\ SubSeq(fromLegi', 1, Len(fromLegi)) = fromLegi
          /\ LET page == fromLegi'[Len(fromLegi')]
                 results == legi'.results
             IN /\ page.t = TEXT_LIST
                /\ page.job = legi.job
                /\ Len(page.ids) = Len(results)
                /\ \A i \in 1..Len(results) :
                      page.ids[i] = results[i].titles[1].cid]_vars

\* A page of two different CIDs, the greater first, has just been sent.
C21_Witness ==
    /\ legi.pc \in {"list", "listEnd"}
    /\ Len(legi.results) = 2
    /\ legi.results[1].titles[1].cid > legi.results[2].titles[1].cid
    /\ fromLegi # <<>>
    /\ fromLegi[Len(fromLegi)].t = TEXT_LIST
    /\ fromLegi[Len(fromLegi)].ids =
          <<legi.results[1].titles[1].cid, legi.results[2].titles[1].cid>>


\* The CIDs of the pages that the Middleman has received (converter.py
\* 473-482): those of a page still to be answered, and those that a reply
\* kept or left out.
Listed ==
    UNION {Range(gM.pending[i]) : i \in DOMAIN gM.pending}
        \cup gM.tracked \cup gM.rejected

\* cid is in a page still to be answered whose first CID, the key under
\* which the page was recorded (479), is a key of _commandsDict.
AwaitedUnderKey(cid) ==
    \E i \in DOMAIN gM.pending :
        /\ cid \in Range(gM.pending[i])
        /\ gM.pending[i][1] \in DOMAIN commandsDict

\* C22: TrackedItem invariant.  Every CID that is no key of _commandsDict
\* has not been listed, or its acknowledgement has been handled, or a
\* reply of the DB manager left it out as known; a CID of a page that is
\* still to be answered counts as tracked while the first CID of its page
\* is a key.
C22_TrackedItem ==
    mmPc # "crashed" =>
        \A cid \in Listed \ DOMAIN commandsDict :
            \/ cid \in gM.acked
            \/ cid \in gM.rejected
            \/ AwaitedUnderKey(cid)


\* The search filters for which a list order has been sent (converter.py
\* 464) whose end of list (112) has not been handled (470-472): the order
\* waits in the pipe, is being executed, or its end waits in the pipe.
OpenListings ==
    {j \in Jobs :
        \/ \E i \in DOMAIN toLegi : toLegi[i] = ListOrder(j)
        \/ legi.pc \in {"list", "listEnd"} /\ legi.job = j
        \/ \E i \in DOMAIN fromLegi : fromLegi[i] = ListEnd(j)}

\* C23: PendingJobSet invariant.  The search filters in _commandsSet are
\* those with a list order sent and no end of list handled yet, and no end
\* of list names a filter that is not in _commandsSet (set.remove does not
\* raise), the same filter being submitted twice included.
C23_PendingJobSet ==
    /\ mmPc # "crashed" => commandsSet \ {Wait} = OpenListings
    /\ gM.site # "eol"


\* A step of the text provider that sends the end of a list.
SendsListEnd ==
    /\ legi.pc = "listEnd"
    /\ Len(fromLegi') > Len(fromLegi)

\* A step of the text provider that reads an order.
ReadsOrder == Len(toLegi') < Len(toLegi)

\* C25: list pagination protocol.  While it executes a list order the
\* text provider does nothing but ask for pages and send them: the k-th
\* request asks for page k and is followed by one page message of the
\* order's search filter; after the first page, a page is asked for only
\* while the results so far are fewer than the total reported; then one end
\* of list of that filter is sent, and only then is the next order read,
\* which is the first of the pipe.
C25_Pagination ==
    [][/\ legi.pc = "list" /\ legi' # legi => SendsPage
       /\ SendsPage =>
             /\ legi'.asked = legi.requests + 1
             /\ legi'.requests = legi.requests + 1
             /\ legi.requests > 0 => legi.current < legi.total
             /\ fromLegi' = Append(fromLegi, fromLegi'[Len(fromLegi')])
             /\ fromLegi'[Len(fromLegi')].t = TEXT_LIST
             /\ fromLegi'[Len(fromLegi')].job = legi.job
             /\ legi'.pc \in {"list", "listEnd"}
             /\ legi'.job = legi.job
             /\ legi'.pc = "listEnd" <=> legi'.current >= legi'.total
             /\ toLegi' = toLegi
       /\ legi.pc = "listEnd" /\ legi' # legi => SendsListEnd
       /\ SendsListEnd =>
             /\ fromLegi' = Append(fromLegi, ListEnd(legi.job))
             /\ legi.requests >= 1
             /\ legi.current >= legi.total
             /\ legi'.pc = "recv"
             /\ toLegi' = toLegi
       /\ ReadsOrder =>
             /\ legi.pc = "recv"
             /\ toLegi' = Tail(toLegi)
             /\ fromLegi' = fromLegi
             /\ Head(toLegi).t = TEXT_LIST =>
                   /\ legi'.pc = "list"
                   /\ legi'.job = Head(toLegi).job
                   /\ legi'.pageNumber = 1
                   /\ legi'.requests = 0]_vars

\* The two pages and the end of the list of one search filter wait in the
\* pipe, followed by the first page of the next filter's list.
C25_Witness ==
    /\ Len(fromLegi) = 4
    /\ fromLegi[1].t = TEXT_LIST /\ fromLegi[1].job = 1
    /\ fromLegi[2].t = TEXT_LIST /\ fromLegi[2].job = 1
    /\ fromLegi[3] = ListEnd(1)
    /\ fromLegi[4].t = TEXT_LIST /\ fromLegi[4].job = 2
    /\ legi.job = 2
    /\ legi.asked = 1

\* C27: CheckNew reply handling.  When the Middleman takes a reply of the
\* DB manager whose first CID is a key of _commandsDict, the key is
\* removed; every CID of the reply then is a key with the value the first
\* CID had, the other keys keep their values, and one text order with the
\* CIDs of the reply is sent to the text provider, or nothing when the
\* reply holds no CID.  Nothing is sent elsewhere and _commandsSet, "wait"
\* included, is unchanged.
C27_ReplyHandling ==
    [][(TakesDbMsg /\ Head(fromDb).t = TEXT_LIST
            /\ Head(fromDb).cid \in DOMAIN commandsDict)
        => LET key == Head(fromDb).cid
               newIds == Head(fromDb).ids
               criteria == commandsDict[key]
           IN /\ DOMAIN commandsDict' =
                    ((DOMAIN commandsDict) \ {key}) \cup Range(newIds)
              /\ \A cid \in Range(newIds) : commandsDict'[cid] = criteria
              /\ \A cid \in (DOMAIN commandsDict') \ Range(newIds) :
                    commandsDict'[cid] = commandsDict[cid]
              /\ toLegi' = IF newIds = <<>> THEN toLegi
                           ELSE Append(toLegi, FetchOrder(newIds))
              /\ toDb' = toDb
              /\ toCommand' = toCommand
              /\ commandsSet' = commandsSet
              /\ mmPc' = mmPc]_vars

\* The reply to the page [1, 2] of search filter 2, which leaves out CID 1
\* and keeps CID 2, has been handled: CID 2 alone is a key, for filter 2,
\* and the text order for it waits in the pipe.
C27_Witness ==
    /\ mmPc = "db"
    /\ 1 \in gM.rejected
    /\ DOMAIN commandsDict = {2}
    /\ commandsDict[2] = 2
    /\ toLegi # <<>>
    /\ toLegi[Len(toLegi)] = FetchOrder(<<2>>)

\* END is sent to an agent, or something is sent to the control side.
SendsShutdown ==
    \/ Len(toLegi') > Len(toLegi) /\ toLegi'[Len(toLegi')] = EndMsg
    \/ Len(toDb') > Len(toDb) /\ toDb'[Len(toDb')] = EndMsg
    \/ toCommand' # toCommand

\* C28: shutdown protocol.  END is sent to an agent, and the report to the
\* control side, only in the step that leaves the loop, with "wait" gone,
\* no filter in the set and no key in the dictionary: one END to each agent
\* and one END to the control side, which is all the control side ever
\* gets; after it the Middleman sends nothing.  An agent that reads END
\* ends, and an agent that has ended reads and sends nothing.
C28_Shutdown ==
    /\ [](toCommand = IF mmPc = "done" THEN <<EndMsg>> ELSE <<>>)
    /\ [][/\ SendsShutdown =>
                /\ mmPc = "loop"
                /\ commandsSet = {}
                /\ DOMAIN commandsDict = {}
                /\ mmPc' = "done"
                /\ toLegi' = Append(toLegi, EndMsg)
                /\ toDb' = Append(toDb, EndMsg)
                /\ toCommand' = Append(toCommand, EndMsg)
          /\ mmPc = "done" =>
                /\ mmPc' = "done"
                /\ Len(toLegi') <= Len(toLegi)
                /\ Len(toDb') <= Len(toDb)
                /\ toCommand' = toCommand
          /\ (ReadsOrder /\ Head(toLegi) = EndMsg) => legi'.pc = "ended"
          /\ legi.pc = "ended" =>
                /\ legi' = legi
                /\ Len(toLegi') >= Len(toLegi)
                /\ Len(fromLegi') <= Len(fromLegi)
          /\ (Len(toDb') < Len(toDb) /\ Head(toDb) = EndMsg) => dbPc' = "ended"
          /\ dbPc = "ended" =>
                /\ dbPc' = dbPc
                /\ db' = db
                /\ Len(toDb') >= Len(toDb)
                /\ Len(fromDb') <= Len(fromDb)]_vars

\* After a run in which a page was checked, the Middleman has left its
\* loop, both agents have read END and ended, and the control side holds
\* the one report.
C28_Witness ==
    /\ mmPc = "done"
    /\ legi.pc = "ended"
    /\ dbPc = "ended"
    /\ toCommand = <<EndMsg>>
    /\ toLegi = <<>>
    /\ toDb = <<>>
    /\ gM.routed # {}

C30_AtMostOnce ==
    [][/\ (TakesDbMsg /\ Head(fromDb).t = TEXT_LIST /\ toLegi' # toLegi) =>
             Range(Head(fromDb).ids) \cap gM.fetchSent = {}
       /\ (TakesLegiMsg /\ Head(fromLegi).t = TEXT /\ toDb' # toDb) =>
             Head(fromLegi).cid \notin gM.persistSent]_vars

(* ------------------------ pipes of bounded capacity -------------------- *)
\* A pipe between the Middleman and an agent (main.py 29-30) holds at most
\* Cap messages in each direction.  Connection.send returns only once the
\* message has been written, so a sender whose message does not fit waits
\* in send: the messages of a pipe beyond the first Cap are those that the
\* sender is still writing, and a process that waits in send takes no step.
MiddlemanInSendToLegi == Len(toLegi) > Cap
MiddlemanInSendToDb == Len(toDb) > Cap
TextProviderInSend == Len(fromLegi) > Cap
DbManagerInSend == Len(fromDb) > Cap

MiddlemanInSend == MiddlemanInSendToLegi \/ MiddlemanInSendToDb

NextBounded ==
    \/ MiddlemanWait /\ ~MiddlemanInSend
    \/ HandleOrder /\ ~MiddlemanInSend
    \/ HandleLegiMsg /\ ~MiddlemanInSend
    \/ HandleDbMsg /\ ~MiddlemanInSend
    \/ MiddlemanEnd /\ ~MiddlemanInSend
    \/ LegiRecv /\ ~TextProviderInSend
    \/ LegiListPage /\ ~TextProviderInSend
    \/ LegiListEnd /\ ~TextProviderInSend
    \/ LegiText /\ ~TextProviderInSend
    \/ DbManager /\ ~DbManagerInSend

SpecBounded == Init /\ [][NextBounded]_vars

\* The text provider is in a call of LegiConnector.post (converter.py 185,
\* 214): in _waitIfNeeded or in the request.
TextProviderInCall == legi.pc \in {"list", "text"}

\* C24: the Middleman waits only in connection.wait.  With pipes of bounded
\* capacity, the Middleman never waits in send to an agent while that
\* agent waits in send to the Middleman, and it is never kept waiting in
\* send to the text provider, which is in a remote call, while a message
\* of the DB manager is there to be handled.
C24_NoSendDeadlock ==
    /\ ~(MiddlemanInSendToLegi /\ TextProviderInSend)
    /\ ~(MiddlemanInSendToDb /\ DbManagerInSend)
    /\ ~(MiddlemanInSendToLegi /\ TextProviderInCall /\ fromDb # <<>>)

(* ------------------- the text provider and any listing ----------------- *)
\* The other end of the text provider's pipe as the text provider sees it
\* (converter.py 468-469): the Middleman reads a message.  What the
\* Middleman does with it is left out.
ReadLegiMsg ==
    /\ mmPc = "legi"
    /\ fromLegi # <<>>
    /\ fromLegi' = Tail(fromLegi)
    /\ UNCHANGED <<mmPc, commandsSet, commandsDict, fromCommand, toCommand,
                   toLegi, toDb, fromDb, legi, dbPc, db, gM, gA>>
    /\ UNCHANGED quotaVars

\* The list orders of the submissions js are in the text provider's pipe
\* (converter.py 464) and the Middleman reads what the text provider sends.
InitList ==
    /\ mmPc = "legi"
    /\ commandsDict = EmptyDict
    /\ toCommand = <<>>
    /\ fromCommand = <<>>
    /\ fromLegi = <<>>
    /\ toDb = <<>>
    /\ fromDb = <<>>
    /\ legi = LegiIdle
    /\ dbPc = "start"
    /\ db = NewDb(EmptyStore)
    /\ \E js \in Submissions \ {<<>>} :
          /\ commandsSet = Range(js)
          /\ toLegi = [i \in 1..Len(js) |-> ListOrder(js[i])]
          /\ gA = NewGA({}, js)
    /\ connector = NewConnector
    /\ clock = 0
    /\ gM = NewGM(1, {})

\* The text provider sends into a pipe of bounded capacity, the listing
\* answers anything, and the Middleman reads.
NextList ==
    \/ LegiRecv /\ ~TextProviderInSend
    \/ LegiListPageAny /\ ~TextProviderInSend
    \/ LegiListEnd /\ ~TextProviderInSend
    \/ ReadLegiMsg

\* The text provider is a process of its own (main.py 34-36, 43): it takes
\* its next step whenever it can, and so does the reader of its pipe.
SpecList ==
    /\ InitList
    /\ [][NextList]_vars
    /\ WF_vars((LegiRecv \/ LegiListPageAny \/ LegiListEnd)
                  /\ ~TextProviderInSend)
    /\ WF_vars(ReadLegiMsg)

\* C26: list terminates.  Whatever the listing answers, a list order that
\* is being executed comes to its end: the end of list is sent and the
\* text provider is back at reading its orders.
C26_ListTerminates == (legi.pc = "list") ~> (legi.pc = "recv")

(* ------------------- submissions after the end of them ----------------- *)
\* Longest sequence of messages that the control side sends after END.
MaxLate == 2

\* What the control side may send: a search filter or END.
LateMessages == {JobMsg(j) : j \in Jobs} \cup {EndMsg}

\* The control side goes on sending after END (main.py 40-42 sends nothing
\* there): the control pipe holds the submissions, END, and then one message
\* or more; no search filter or one is submitted before END.
InitLate ==
    /\ mmPc = "loop"
    /\ commandsSet = {Wait}
    /\ commandsDict = EmptyDict
    /\ toCommand = <<>>
    /\ toLegi = <<>>
    /\ fromLegi = <<>>
    /\ toDb = <<>>
    /\ fromDb = <<>>
    /\ legi = LegiIdle
    /\ dbPc = "start"
    /\ \E js \in {<<>>, <<1>>} :
       \E late \in SeqsUpTo(LateMessages, MaxLate) \ {<<>>} :
       \E acc \in SUBSET Ids : \E fai \in SUBSET (Ids \ acc) :
          /\ fromCommand = ControlPipe(js) \o late
          /\ db = NewDb([accepted |-> acc, failed |-> fai, records |-> acc])
          /\ gA = NewGA(acc \cup fai, js)
    /\ connector = NewConnector
    /\ clock = 0
    /\ gM = NewGM(1, {})

SpecLate == InitLate /\ [][Next]_vars

\* The Middleman has taken END from the control pipe (converter.py 460-461).
EndProcessed == Wait \notin commandsSet

\* A step of the Middleman's loop can be taken.
MiddlemanCanStep ==
    ENABLED (MiddlemanWait \/ HandleOrder \/ HandleLegiMsg \/ HandleDbMsg
                \/ MiddlemanEnd)

\* C31 (submissions after END are never accepted): once the Middleman has
\* taken END from the control pipe, "wait" being out of its set, no step
\* takes a message from the control pipe, adds a search filter to the set,
\* sends a list order or puts "wait" back, whatever the control pipe holds;
\* and with messages left on the control pipe the Middleman is never held:
\* until it has ended or raised it can take a step, and it leaves its loop
\* as soon as the set and the dictionary are empty.
C31_NoLateSubmission ==
    /\ [][EndProcessed =>
             /\ fromCommand' = fromCommand
             /\ commandsSet' \subseteq commandsSet
             /\ gM'.listSent = gM.listSent
             /\ Len(toLegi') > Len(toLegi) =>
                   toLegi'[Len(toLegi')].t # TEXT_LIST
             /\ EndProcessed']_vars
    /\ [](/\ (EndProcessed /\ fromCommand # <<>>
                 /\ mmPc \notin {"done", "crashed"}) => MiddlemanCanStep
          /\ (EndProcessed /\ mmPc = "loop" /\ ~Continue) =>
                 ENABLED MiddlemanEnd)

\* C31's case: the Middleman has ended after the listing of one search
\* filter, and the two messages sent after END, a search filter among them,
\* are still on the control pipe.
C31_Witness ==
    /\ mmPc = "done"
    /\ gM.listSent = {1}
    /\ Len(fromCommand) = MaxLate
    /\ \E i \in DOMAIN fromCommand : fromCommand[i].t = "JOB"
    /\ Len(toCommand) = 1

(* ---------------------------- the list of expiries --------------------- *)
\* _waitIfNeeded has returned (legiConnector.py 91) and no later call of it
\* has begun.
WaitIfNeededReturned == connector.pc \in {"request", "idle"}

\* C32 (the list of expiries): from the return of _waitIfNeeded to its next
\* call, the clock never going back, self._quotas is in non-decreasing
\* order and holds QUOTA_LIMIT expiries at most; a call of _waitIfNeeded
\* calls sleep once at most, with a length above zero; and when it has
\* called sleep, the expiry that was first in the list is past and out of
\* the list when the new expiry is appended.
C32_RateWindow ==
    /\ WaitIfNeededReturned =>
          /\ \A i, k \in DOMAIN connector.quotas :
                i < k => connector.quotas[i] <= connector.quotas[k]
          /\ Len(connector.quotas) <= QUOTA_LIMIT
    /\ Len(connector.sleeps) <= 1
    /\ \A i \in DOMAIN connector.sleeps : connector.sleeps[i] > 0
    /\ (connector.pc = "append" /\ connector.sleeps # <<>>) =>
          /\ connector.held[1] * Res < clock
          /\ Len(connector.quotas) < Len(connector.held)

=============================================================================
